---- MODULE Spec2Model ----
(***************************************************************************)
(* Admission control (rate limiting) of the Codalyzer backend,             *)
(* src/backend/index.py: the two Lua scripts run by the counter store, the *)
(* key scheme, rate_limit_middleware wrapped around request_size_middleware *)
(* and the analyze_code handler, the application lifespan and the          *)
(* process-local telemetry.                                                *)
(*                                                                         *)
(* Time is counted in ticks of one day.  A request lasts far less than a   *)
(* tick (store timeout 2 s, provider timeout 8 s, three attempts), so a    *)
(* request in flight sees at most one tick boundary.                       *)
(*                                                                         *)
(* Requests are numbered in the order in which they reach the middleware   *)
(* and clients are named in the order of their first request; nothing in   *)
(* the program depends on either name.                                     *)
(***************************************************************************)
EXTENDS Integers, FiniteSets, Sequences, TLC

\* ------------------------------------------------------------------ bounds
NumReq == 2
MaxTime == 2
MaxDaily == 1
MaxGlobal == 2

\* ticks per day bucket, and the key lifetime ttl = 90_000 s (25 h) in ticks,
\* rounded up: longer than a bucket
DayLen == 1
MaxReads == 1
MaxCount == 2
MaxHeaderLen == 2
MaxErrors == 1
TtlTicks == DayLen + 1

Reqs == 1..NumReq
ClientOrder == <<"A", "B">>
Clients == {ClientOrder[i] : i \in 1..Len(ClientOrder)}
Times == 0..MaxTime

\* ---------------------------------------------------------------- settings
\* Settings.rate_limiting_enabled: both the store URL and the token are set
rate_limiting_enabled(s) == s.UPSTASH_REDIS_URL /\ s.UPSTASH_REDIS_TOKEN

\* ---------------------------------------------------------- bucket and keys
DayNames == <<"20260101", "20260102", "20260103", "20260104">>

\* _day_str(): the bucket id of the instant t, strftime("%Y%m%d")
day_str(t) == DayNames[(t \div DayLen) + 1]

\* _ip_key(ip) evaluated at instant t
ip_key_undated(ip, t) == <<"codalyzer", "rl", "day", day_str(0), "ip", ip>>

ip_key(ip, t) == <<"codalyzer", "rl", "day", day_str(t), "ip", ip>>

\* _global_key() evaluated at instant t
global_key(t) == <<"codalyzer", "rl", "global", "day", day_str(t)>>

AllKeys == {ip_key(c, t) : c \in Clients, t \in Times}
             \cup {global_key(t) : t \in Times}

\* ------------------------------------------------------------ counter store
\* a key of the store: absent, or present with an integer value and an
\* expiry instant (NoExpiry when the key is persistent)
NoExpiry == 0 - 1
Absent == [present |-> FALSE, val |-> 0, exp |-> NoExpiry]

\* redis INCR: an absent key counts as 0 and is created without expiry
Incr(st, k) ==
    IF st[k].present
    THEN [st EXCEPT ![k].val = @ + 1]
    ELSE [st EXCEPT ![k] = [present |-> TRUE, val |-> 1, exp |-> NoExpiry]]

\* redis EXPIRE key ttl at instant t
Expire(st, k, t) == [st EXCEPT ![k].exp = t + TtlTicks]

\* redis DECR on an existing key
Decr(st, k) == [st EXCEPT ![k].val = @ - 1]

\* redis SET key 0: the value is replaced and the expiry is discarded
SetZero(st, k) == [st EXCEPT ![k] = [present |-> TRUE, val |-> 0, exp |-> NoExpiry]]

\* one key of _RATE_LIMIT_LUA: INCR, and EXPIRE when the count is 1
LuaIncrKey(st, k, t) ==
    LET s1 == Incr(st, k)
    IN  IF s1[k].val = 1 THEN Expire(s1, k, t) ELSE s1

\* _RATE_LIMIT_LUA on KEYS[1] = k1, KEYS[2] = k2 at instant t:
\* the store after the script and the pair it returns
RATE_LIMIT_LUA_Stale(st, k1, k2, t) ==
    LET s1 == LuaIncrKey(st, k1, t)
        s2 == LuaIncrKey(s1, k2, t)
    IN  [store |-> s2,
         ip_count |-> IF st[k1].present THEN st[k1].val ELSE 0,
         global_count |-> s2[k2].val]

RATE_LIMIT_LUA_SameKey(st, k1, k2, t) ==
    LET s1 == LuaIncrKey(st, k1, t)
        s2 == LuaIncrKey(s1, k1, t)
    IN  [store |-> s2, ip_count |-> s1[k1].val, global_count |-> s2[k1].val]

RATE_LIMIT_LUA(st, k1, k2, t) ==
    LET s1 == LuaIncrKey(st, k1, t)
        s2 == LuaIncrKey(s1, k2, t)
    IN  [store |-> s2, ip_count |-> s1[k1].val, global_count |-> s2[k2].val]

\* one key of _RATE_LIMIT_DECR_LUA: DECR when the key exists, SET 0 when
\* the result is negative
LuaDecrKeyNoClamp(st, k) ==
    IF st[k].present THEN Decr(st, k) ELSE st

LuaDecrKey(st, k) ==
    IF st[k].present
    THEN LET s1 == Decr(st, k)
         IN  IF s1[k].val < 0 THEN SetZero(s1, k) ELSE s1
    ELSE st

\* the count one key of _RATE_LIMIT_DECR_LUA reports
LuaDecrCount(st, k) ==
    IF st[k].present
    THEN (IF st[k].val - 1 < 0 THEN 0 ELSE st[k].val - 1)
    ELSE 0

\* _RATE_LIMIT_DECR_LUA on KEYS[1] = k1, KEYS[2] = k2
RATE_LIMIT_DECR_LUA_FirstKeyOnly(st, k1, k2) ==
    [store |-> LuaDecrKey(st, k1), ip_count |-> LuaDecrCount(st, k1),
     global_count |-> LuaDecrCount(st, k2)]

RATE_LIMIT_DECR_LUA(st, k1, k2) ==
    LET s1 == LuaDecrKey(st, k1)
        s2 == LuaDecrKey(s1, k2)
    IN  [store |-> s2, ip_count |-> LuaDecrCount(st, k1),
         global_count |-> LuaDecrCount(s1, k2)]

\* ------------------------------------------------------------------- state
VARIABLES
    settings,   \* Settings(): the environment the process was started with
    app,        \* lifespan: "starting", "serving" or "aborted"
    redis,      \* app.state.redis: "client" or "none"
    gemini,     \* gemini_service.available
    store,      \* the counter store: key -> entry
    now,        \* wall clock, in ticks
    req,        \* the POST /analyze requests
    telemetry,  \* _telemetry
    health      \* the GET /initialize responses: how many, and the last one

vars == <<settings, app, redis, gemini, store, now, req, telemetry, health>>

NoKey == <<>>
NoHeader == 0 - 1

\* a request: where its coroutine stands (pc), what rate_limit_middleware
\* holds in its locals, the response, and what was done on its behalf
\*   pc            "new", "keyed", "handler", "passthru", "refund", "done"
\*   ip_key ...    the locals of rate_limit_middleware
\*   hstatus       status of the response call_next returned (0: none)
\*   status, error, remaining
\*                 the response sent: status code, the "error" of an
\*                 admission-layer body, the X-RateLimit-Remaining header
\*   admit_calls, refund_calls   redis.eval calls made for the request
\*   admits, refunds             script runs the store made for it
\*   admitted_at   the client count the admit script returned
\*   called        call_next invocations
\*   raised        what raised: "", "no_handle", "admit", "call_next", "refund"
NewReq == [pc |-> "new", ip |-> "", born |-> 0,
           ip_key |-> NoKey, global_key |-> NoKey,
           ip_count |-> 0, global_count |-> 0, admitted_at |-> 0,
           hstatus |-> 0, status |-> 0, error |-> "", remaining |-> NoHeader,
           retry_after |-> NoHeader,
           admit_calls |-> 0, admits |-> 0, refund_calls |-> 0, refunds |-> 0,
           called |-> 0, raised |-> ""]

SettingsSet ==
    [UPSTASH_REDIS_URL : BOOLEAN, UPSTASH_REDIS_TOKEN : BOOLEAN, DEBUG : BOOLEAN,
     DAILY_RATE_LIMIT : 1..MaxDaily, GLOBAL_RATE_LIMIT : 1..MaxGlobal]

\* no GET /initialize was answered yet
NoHealth == [reads |-> 0, ip |-> "", user_requests_remaining |-> NoHeader,
             global_requests_remaining |-> NoHeader, reset_at |-> NoHeader]

Telemetry0 == [requests_total |-> 0, requests_failed |-> 0,
               redis_errors |-> 0, rate_limit_hits |-> 0]

Init ==
    /\ settings \in SettingsSet
    /\ app = "starting"
    /\ redis = "none"
    /\ gemini = FALSE
    /\ store = [k \in AllKeys |-> Absent]
    /\ now = 0
    /\ req = [r \in Reqs |-> NewReq]
    /\ telemetry = Telemetry0
    /\ health = NoHealth

\* ---------------------------------------------------------------- lifespan
\* lifespan(app): create_redis_client() when rate limiting is configured,
\* then the Gemini key validation; redisOk and geminiOk are what the two
\* dependencies answer at startup
lifespan_never_aborts(redisOk, geminiOk) ==
    /\ app = "starting"
    /\ LET enabled == rate_limiting_enabled(settings)
           redisFails == enabled /\ ~redisOk
       IN  /\ redis' = IF enabled /\ redisOk THEN "client" ELSE "none"
           /\ telemetry' = IF redisFails
                           THEN [telemetry EXCEPT !.redis_errors = @ + 1]
                           ELSE telemetry
           /\ gemini' = geminiOk
           /\ app' = "serving"
    /\ UNCHANGED <<settings, store, now, req, health>>

lifespan(redisOk, geminiOk) ==
    /\ app = "starting"
    /\ LET enabled == rate_limiting_enabled(settings)
           redisFails == enabled /\ ~redisOk
           abortRedis == redisFails /\ ~settings.DEBUG
           abortGemini == ~geminiOk /\ ~settings.DEBUG
       IN  /\ redis' = IF enabled /\ redisOk THEN "client" ELSE "none"
           /\ telemetry' = IF redisFails
                           THEN [telemetry EXCEPT !.redis_errors = @ + 1]
                           ELSE telemetry
           /\ gemini' = (~abortRedis /\ geminiOk)
           /\ app' = IF abortRedis \/ abortGemini THEN "aborted" ELSE "serving"
    /\ UNCHANGED <<settings, store, now, req, health>>

\* ------------------------------------------------------- middleware stack
\* app.middleware("http")(f) in registration order; add_middleware inserts
\* at the front, so the middleware registered last is the outermost
Registered == <<"security_headers", "request_size", "rate_limit">>

\* position of a middleware counted from the outermost (1) inwards
Depth(m) == CHOOSE i \in 1..Len(Registered) : Registered[Len(Registered) + 1 - i] = m

\* a wraps b: a sees the request before b does
Wraps(a, b) == Depth(a) < Depth(b)

\* request_size_middleware on a POST whose Content-Length header is
\*   "ok"  absent or at most MAX_REQUEST_SIZE,
\*   "big" above MAX_REQUEST_SIZE,
\*   "bad" not a number, so that int(content_length) raises ValueError
ContentLengths == {"ok", "big", "bad"}

request_size_middleware(clen) ==
    CASE clen = "big" -> "413"
      [] clen = "bad" -> "raise"
      [] OTHER -> "call_next"

\* ------------------------------------------------------------ the handler
\* what analyze_code and the validation in front of it answer: the status,
\* whether _telemetry["requests_total"] was incremented (line 774) and
\* whether _telemetry["requests_failed"] was
Outcome(st, counted, failed) == [status |-> st, counted |-> counted, failed |-> failed]

HandlerOutcomes(available) ==
    {Outcome(422, FALSE, FALSE)}
      \cup (IF available
            THEN {Outcome(400, FALSE, FALSE), Outcome(200, TRUE, FALSE),
                  Outcome(504, TRUE, TRUE), Outcome(500, TRUE, TRUE),
                  Outcome(503, TRUE, TRUE)}
            ELSE {Outcome(503, FALSE, FALSE)})

\* _telemetry after the handler answered o
HandlerTelemetry(t, o) ==
    [t EXCEPT !.requests_total = IF o.counted THEN @ + 1 ELSE @,
              !.requests_failed = IF o.failed THEN @ + 1 ELSE @]

\* --------------------------------------------------- rate_limit_middleware
Max(a, b) == IF a >= b THEN a ELSE b

\* the request is answered: its coroutine ends
Answer(rec, status, error, remaining) ==
    [rec EXCEPT !.pc = "done", !.born = 0, !.status = status, !.error = error,
                !.remaining = remaining]

\* JSONResponse(status_code=503, "service_unavailable") of lines 513 and 605
Unavailable(rec) == Answer(rec, 503, "service_unavailable", NoHeader)

\* lines 596-599: the rate-limit headers are set on the handler's response
Decorated(rec) ==
    Answer(rec, rec.hstatus, "", Max(0, settings.DAILY_RATE_LIMIT - rec.ip_count))

\* lines 533-534: the two clock reads leave ms milliseconds from the second
\* read to the reset time computed from the first (negative when midnight
\* falls between them); int() drops the fraction of a second towards zero
MsLeft == {0 - 1, 500, 3600000}

seconds_until_reset(ms) ==
    IF ms >= 0 THEN ms \div 1000 ELSE 0 - ((0 - ms) \div 1000)

\* lines 507-522: what the middleware does with the store handle it found
GateFailOpen(handle, s) ==
    IF handle = "none" THEN "call_next" ELSE "admit"

GateClosedWithoutHandle(handle, s) ==
    IF handle = "none" THEN "unavailable" ELSE "admit"

Gate(handle, s) ==
    IF handle = "none"
    THEN (IF rate_limiting_enabled(s) THEN "unavailable" ELSE "call_next")
    ELSE "admit"

\* lines 536-576: the counts the script returned against the two limits,
\* the client limit first
DecisionOffByOne(ip_count, global_count, s) ==
    IF ip_count > s.DAILY_RATE_LIMIT + 1 THEN "rate_limit_exceeded"
    ELSE IF global_count > s.GLOBAL_RATE_LIMIT + 1 THEN "global_limit_exceeded"
    ELSE "call_next"

DecisionGlobalInclusive(ip_count, global_count, s) ==
    IF ip_count > s.DAILY_RATE_LIMIT THEN "rate_limit_exceeded"
    ELSE IF global_count >= s.GLOBAL_RATE_LIMIT THEN "global_limit_exceeded"
    ELSE "call_next"

DecisionClientOnly(ip_count, global_count, s) ==
    IF ip_count > s.DAILY_RATE_LIMIT THEN "rate_limit_exceeded" ELSE "call_next"

DecisionGlobalFirst(ip_count, global_count, s) ==
    IF global_count > s.GLOBAL_RATE_LIMIT THEN "global_limit_exceeded"
    ELSE IF ip_count > s.DAILY_RATE_LIMIT THEN "rate_limit_exceeded"
    ELSE "call_next"

DecisionInclusive(ip_count, global_count, s) ==
    IF ip_count >= s.DAILY_RATE_LIMIT THEN "rate_limit_exceeded"
    ELSE IF global_count >= s.GLOBAL_RATE_LIMIT THEN "global_limit_exceeded"
    ELSE "call_next"

Decision(ip_count, global_count, s) ==
    IF ip_count > s.DAILY_RATE_LIMIT THEN "rate_limit_exceeded"
    ELSE IF global_count > s.GLOBAL_RATE_LIMIT THEN "global_limit_exceeded"
    ELSE "call_next"

\* line 579: the responses whose quota is refunded
NeedsRefundFrom400(status) == status >= 400

NeedsRefund(status) == status >= 500

\* line 582: the keys the refund script is called with are the locals
\* ip_key and global_key of the admit
RefundKeysRederived(rec, t) == <<ip_key(rec.ip, t), global_key(t)>>

RefundKeys(rec, t) == <<rec.ip_key, rec.global_key>>

\* the clients seen so far and the first one not seen yet
Seen == {req[q].ip : q \in {q \in DOMAIN req : req[q].pc # "new"}}
KnownOrNext == {ClientOrder[i] : i \in 1..Max(1, IF Cardinality(Seen) < Len(ClientOrder)
                                                  THEN Cardinality(Seen) + 1
                                                  ELSE Len(ClientOrder))}

\* The request enters the stack.  rate_limit_middleware, lines 504-526: the
\* store handle is read; without one the request is refused (configured) or
\* passed on (not configured); with one the client key is derived.
Begin(r, ip, clen) ==
    /\ app = "serving"
    /\ req[r].pc = "new"
    /\ \A q \in DOMAIN req : q < r => req[q].pc # "new"
    /\ ip \in KnownOrNext
    /\ LET rec == [req[r] EXCEPT !.ip = ip, !.born = now]
           first == IF Wraps("request_size", "rate_limit")
                    THEN request_size_middleware(clen) ELSE "call_next"
       IN  CASE first = "413" ->
                  /\ req' = [req EXCEPT ![r] = Answer(rec, 413, "request_too_large", NoHeader)]
                  /\ UNCHANGED telemetry
             [] first = "raise" ->
                  /\ req' = [req EXCEPT ![r] = Answer(rec, 500, "Internal server error", NoHeader)]
                  /\ telemetry' = [telemetry EXCEPT !.requests_failed = @ + 1]
             [] OTHER ->
                  LET gate == Gate(redis, settings)
                  IN  CASE gate = "unavailable" ->
                             /\ req' = [req EXCEPT ![r] =
                                          Unavailable([rec EXCEPT !.raised = "no_handle"])]
                             /\ telemetry' = [telemetry EXCEPT !.redis_errors = @ + 1]
                        [] gate = "call_next" ->
                             /\ req' = [req EXCEPT ![r] =
                                          [rec EXCEPT !.pc = "passthru", !.called = @ + 1]]
                             /\ UNCHANGED telemetry
                        [] OTHER ->
                             /\ req' = [req EXCEPT ![r] =
                                          [rec EXCEPT !.pc = "keyed",
                                                      !.ip_key = ip_key(ip, now)]]
                             /\ UNCHANGED telemetry
    /\ UNCHANGED <<settings, app, redis, gemini, store, now, health>>

\* lines 527-576: the global key is derived, the store runs _RATE_LIMIT_LUA
\* and the two counts are compared with the limits
Admit(r, ms) ==
    /\ req[r].pc = "keyed"
    /\ LET gk == global_key(now)
           res == RATE_LIMIT_LUA(store, req[r].ip_key, gk, now)
           rec == [req[r] EXCEPT !.global_key = gk,
                                 !.admit_calls = @ + 1, !.admits = @ + 1,
                                 !.ip_count = res.ip_count,
                                 !.global_count = res.global_count,
                                 !.admitted_at = res.ip_count]
           decision == Decision(res.ip_count, res.global_count, settings)
           rej == [rec EXCEPT !.retry_after = seconds_until_reset(ms)]
       IN  /\ store' = res.store
           /\ CASE decision = "rate_limit_exceeded" ->
                     /\ req' = [req EXCEPT ![r] = Answer(rej, 429, decision, 0)]
                     /\ telemetry' = [telemetry EXCEPT !.rate_limit_hits = @ + 1]
                [] decision = "global_limit_exceeded" ->
                     /\ req' = [req EXCEPT ![r] = Answer(rej, 429, decision, NoHeader)]
                     /\ telemetry' = [telemetry EXCEPT !.rate_limit_hits = @ + 1]
                [] OTHER ->
                     /\ req' = [req EXCEPT ![r] =
                                  [rec EXCEPT !.pc = "handler", !.called = @ + 1]]
                     /\ UNCHANGED telemetry
    /\ UNCHANGED <<settings, app, redis, gemini, now, health>>

\* lines 530 and 601-612: redis.eval raises (connection error or the socket
\* timeout); ran tells whether the store had run the script before the
\* caller gave up
AdmitRaises(r, ran) ==
    /\ req[r].pc = "keyed"
    /\ LET gk == global_key(now)
           res == RATE_LIMIT_LUA(store, req[r].ip_key, gk, now)
           rec == [req[r] EXCEPT !.global_key = gk, !.admit_calls = @ + 1,
                                 !.admits = IF ran THEN @ + 1 ELSE @,
                                 !.raised = "admit"]
       IN  /\ store' = IF ran THEN res.store ELSE store
           /\ req' = [req EXCEPT ![r] = Unavailable(rec)]
           /\ telemetry' = [telemetry EXCEPT !.redis_errors = @ + 1]
    /\ UNCHANGED <<settings, app, redis, gemini, now, health>>

\* call_next(request) of line 576 returns or raises, and the middleware
\* runs on to its next await: lines 576-579, 596-612
Handle(r, clen, o) ==
    /\ req[r].pc = "handler"
    /\ o \in HandlerOutcomes(gemini)
    /\ LET inner == IF Wraps("rate_limit", "request_size")
                    THEN request_size_middleware(clen) ELSE "call_next"
       IN  CASE inner = "raise" ->
                  /\ req' = [req EXCEPT ![r] =
                               Unavailable([req[r] EXCEPT !.raised = "call_next"])]
                  /\ telemetry' = [telemetry EXCEPT !.redis_errors = @ + 1]
             [] inner = "413" ->
                  /\ req' = [req EXCEPT ![r] =
                               IF NeedsRefund(413)
                               THEN [req[r] EXCEPT !.pc = "refund", !.hstatus = 413]
                               ELSE Decorated([req[r] EXCEPT !.hstatus = 413])]
                  /\ UNCHANGED telemetry
             [] OTHER ->
                  /\ req' = [req EXCEPT ![r] =
                               IF NeedsRefund(o.status)
                               THEN [req[r] EXCEPT !.pc = "refund", !.hstatus = o.status]
                               ELSE Decorated([req[r] EXCEPT !.hstatus = o.status])]
                  /\ telemetry' = HandlerTelemetry(telemetry, o)
    /\ UNCHANGED <<settings, app, redis, gemini, store, now, health>>

\* line 522: without rate limiting the response of call_next is returned as
\* it is; an exception reaches global_exception_handler
HandlePassThrough(r, clen, o) ==
    /\ req[r].pc = "passthru"
    /\ o \in HandlerOutcomes(gemini)
    /\ LET inner == IF Wraps("rate_limit", "request_size")
                    THEN request_size_middleware(clen) ELSE "call_next"
       IN  CASE inner = "raise" ->
                  /\ req' = [req EXCEPT ![r] =
                               Answer([req[r] EXCEPT !.raised = "call_next"],
                                      500, "Internal server error", NoHeader)]
                  /\ telemetry' = [telemetry EXCEPT !.requests_failed = @ + 1]
             [] inner = "413" ->
                  /\ req' = [req EXCEPT ![r] =
                               Answer([req[r] EXCEPT !.hstatus = 413], 413, "", NoHeader)]
                  /\ UNCHANGED telemetry
             [] OTHER ->
                  /\ req' = [req EXCEPT ![r] =
                               Answer([req[r] EXCEPT !.hstatus = o.status],
                                      o.status, "", NoHeader)]
                  /\ telemetry' = HandlerTelemetry(telemetry, o)
    /\ UNCHANGED <<settings, app, redis, gemini, store, now, health>>

\* lines 592-599: the refund call raised; the except logs it and the
\* handler's response is decorated and returned
AfterRefundFailureEscalates(rec) == Unavailable(rec)

AfterRefundFailure(rec) == Decorated(rec)

\* lines 579-599: the handler answered >= 500; the store runs
\* _RATE_LIMIT_DECR_LUA on the keys of the admit and the response is returned
Refund(r) ==
    /\ req[r].pc = "refund"
    /\ LET keys == RefundKeys(req[r], now)
           res == RATE_LIMIT_DECR_LUA(store, keys[1], keys[2])
           rec == [req[r] EXCEPT !.refund_calls = @ + 1, !.refunds = @ + 1,
                                 !.ip_count = res.ip_count]
       IN  /\ store' = res.store
           /\ req' = [req EXCEPT ![r] = Decorated(rec)]
           /\ telemetry' = [telemetry EXCEPT !.requests_total = @ - 1,
                                             !.requests_failed = @ + 1]
    /\ UNCHANGED <<settings, app, redis, gemini, now, health>>

\* lines 582 and 592-599: the refund call raises; the handler's response is
\* returned all the same
RefundRaises(r, ran) ==
    /\ req[r].pc = "refund"
    /\ LET keys == RefundKeys(req[r], now)
           res == RATE_LIMIT_DECR_LUA(store, keys[1], keys[2])
           rec == [req[r] EXCEPT !.refund_calls = @ + 1,
                                 !.refunds = IF ran THEN @ + 1 ELSE @,
                                 !.raised = "refund"]
       IN  /\ store' = IF ran THEN res.store ELSE store
           /\ req' = [req EXCEPT ![r] = AfterRefundFailure(rec)]
    /\ UNCHANGED <<settings, app, redis, gemini, now, telemetry, health>>

\* ------------------------------------------------------------------- clock
\* the count a key stands for, an absent key counting as 0
Count(st, k) == IF st[k].present THEN st[k].val ELSE 0

\* lines 471-474: the instant of the next bucket boundary
next_reset(t) == (t \div DayLen + 1) * DayLen

\* lines 477-499: the two counters of the current bucket are read; no
\* handle, or a read that raises, gives zeros
get_remaining_requests_unclamped(handle, st, ip, t, raises, s) ==
    IF handle = "none"
    THEN [user_remaining |-> 0, global_remaining |-> 0, redis_error |-> FALSE]
    ELSE IF raises
    THEN [user_remaining |-> 0, global_remaining |-> 0, redis_error |-> TRUE]
    ELSE [user_remaining |-> s.DAILY_RATE_LIMIT - Count(st, ip_key(ip, t)),
          global_remaining |-> s.GLOBAL_RATE_LIMIT - Count(st, global_key(t)),
          redis_error |-> FALSE]

get_remaining_requests(handle, st, ip, t, raises, s) ==
    IF handle = "none"
    THEN [user_remaining |-> 0, global_remaining |-> 0, redis_error |-> FALSE]
    ELSE IF raises
    THEN [user_remaining |-> 0, global_remaining |-> 0, redis_error |-> TRUE]
    ELSE [user_remaining |-> Max(0, s.DAILY_RATE_LIMIT - Count(st, ip_key(ip, t))),
          global_remaining |-> Max(0, s.GLOBAL_RATE_LIMIT - Count(st, global_key(t))),
          redis_error |-> FALSE]

\* lines 882-897: GET /initialize, which rate_limit_middleware hands on
\* unmetered (lines 504-505)
initialize(ip, raises) ==
    /\ app = "serving"
    /\ health.reads < MaxReads
    /\ raises => redis # "none"
    /\ LET remaining == get_remaining_requests(redis, store, ip, now, raises, settings)
       IN  /\ health' = [reads |-> health.reads + 1, ip |-> ip,
                         user_requests_remaining |-> remaining.user_remaining,
                         global_requests_remaining |-> remaining.global_remaining,
                         reset_at |-> next_reset(now)]
           /\ telemetry' = [telemetry EXCEPT !.redis_errors =
                                IF remaining.redis_error THEN @ + 1 ELSE @]
    /\ UNCHANGED <<settings, app, redis, gemini, store, now, req>>

InFlight(r) == req[r].pc \notin {"new", "done"}

\* the store drops the keys whose expiry instant is reached
Expired(st, t) ==
    [k \in DOMAIN st |-> IF st[k].present /\ st[k].exp # NoExpiry /\ st[k].exp <= t
                         THEN Absent ELSE st[k]]

\* a day passes; no request stays in flight over two boundaries
Tick ==
    /\ now < MaxTime
    /\ \A r \in DOMAIN req : InFlight(r) => req[r].born = now
    /\ now' = now + 1
    /\ store' = Expired(store, now + 1)
    /\ UNCHANGED <<settings, app, redis, gemini, req, telemetry, health>>

\* ----------------------------------------------------------- specification
Next ==
    \/ \E redisOk \in BOOLEAN, geminiOk \in BOOLEAN : lifespan(redisOk, geminiOk)
    \/ \E r \in Reqs, ip \in Clients, clen \in ContentLengths : Begin(r, ip, clen)
    \/ \E r \in Reqs, ms \in MsLeft : Admit(r, ms)
    \/ \E r \in Reqs, ran \in BOOLEAN : AdmitRaises(r, ran)
    \/ \E r \in Reqs, clen \in ContentLengths, o \in HandlerOutcomes(gemini) :
          Handle(r, clen, o)
    \/ \E r \in Reqs, clen \in ContentLengths, o \in HandlerOutcomes(gemini) :
          HandlePassThrough(r, clen, o)
    \/ \E r \in Reqs : Refund(r)
    \/ \E r \in Reqs, ran \in BOOLEAN : RefundRaises(r, ran)
    \/ \E ip \in Clients, raises \in BOOLEAN : initialize(ip, raises)
    \/ Tick

Spec == Init /\ [][Next]_vars

TypeOK ==
    /\ app \in {"starting", "serving", "aborted"}
    /\ redis \in {"client", "none"}
    /\ now \in Times

\* ------------------------------------------------ the scripts on their own
\* The two scripts as the store runs them for any caller, in any order and
\* with keys of the bucket of the clock or of the one before it, and the
\* expiry of keys as days pass.

\* the key pairs a caller can hold at instant t; one client identity is
\* enough here, the scripts treating KEYS[1] and KEYS[2] alike
StoreClients == {ClientOrder[1]}
BucketsAt(t) == {d \in Times : d <= t /\ t <= d + 1}
PairsAt(t) ==
    {<<ip_key(c, d1), global_key(d2)>> : c \in StoreClients, d1 \in BucketsAt(t),
                                        d2 \in BucketsAt(t)}

StoreInit ==
    /\ settings = [UPSTASH_REDIS_URL |-> TRUE, UPSTASH_REDIS_TOKEN |-> TRUE,
                   DEBUG |-> FALSE, DAILY_RATE_LIMIT |-> MaxDaily,
                   GLOBAL_RATE_LIMIT |-> MaxGlobal]
    /\ app = "serving"
    /\ redis = "client"
    /\ gemini = TRUE
    /\ store = [k \in AllKeys |-> Absent]
    /\ now = 0
    /\ req = [r \in Reqs |-> NewReq]
    /\ telemetry = Telemetry0
    /\ health = NoHealth

\* redis.eval(_RATE_LIMIT_LUA, 2, k1, k2, ttl) of line 530
eval_admit(k1, k2) ==
    /\ Count(store, k1) < MaxCount /\ Count(store, k2) < MaxCount
    /\ store' = RATE_LIMIT_LUA(store, k1, k2, now).store
    /\ UNCHANGED <<settings, app, redis, gemini, now, req, telemetry, health>>

\* redis.eval(_RATE_LIMIT_DECR_LUA, 2, k1, k2) of lines 581-582
eval_refund(k1, k2) ==
    /\ store' = RATE_LIMIT_DECR_LUA(store, k1, k2).store
    /\ UNCHANGED <<settings, app, redis, gemini, now, req, telemetry, health>>

StoreNext ==
    \/ \E p \in PairsAt(now) : eval_admit(p[1], p[2])
    \/ \E p \in PairsAt(now) : eval_refund(p[1], p[2])
    \/ Tick

SpecStore == StoreInit /\ [][StoreNext]_vars

\* ------------------------------------------------- the global-cap scenario
\* Two clients share a global limit of 5 and send 3 requests each, in any
\* interleaving; every handler call answers 200 and the day does not change.
Scenario == [global_limit |-> 5, per_client |-> 3, daily_limit |-> 20]

ScenarioReqs == 1..(2 * Scenario.per_client)

ScenarioInit ==
    /\ settings = [UPSTASH_REDIS_URL |-> TRUE, UPSTASH_REDIS_TOKEN |-> TRUE,
                   DEBUG |-> FALSE, DAILY_RATE_LIMIT |-> Scenario.daily_limit,
                   GLOBAL_RATE_LIMIT |-> Scenario.global_limit]
    /\ app = "serving"
    /\ redis = "client"
    /\ gemini = TRUE
    /\ store = [k \in AllKeys |-> Absent]
    /\ now = 0
    /\ req = [r \in ScenarioReqs |-> NewReq]
    /\ telemetry = Telemetry0
    /\ health = NoHealth

\* the requests client c has sent
SentBy(c) == {r \in ScenarioReqs : req[r].pc # "new" /\ req[r].ip = c}

ScenarioNext ==
    \/ \E r \in ScenarioReqs, ip \in Clients :
          /\ Cardinality(SentBy(ip)) < Scenario.per_client
          /\ Begin(r, ip, "ok")
    \/ \E r \in ScenarioReqs : Admit(r, 3600000)
    \/ \E r \in ScenarioReqs : Handle(r, "ok", Outcome(200, TRUE, FALSE))

SpecScenario == ScenarioInit /\ [][ScenarioNext]_vars

\* --------------------------------------------- a client over its own limit
\* Three requests from at most two clients against client limit 1 and
\* global limit 2, the store answering every call and the day not changing:
\* one client can go over its own limit while another is under its own.
Crowd == [global_limit |-> 2, daily_limit |-> 1, requests |-> 3]

CrowdReqs == 1..Crowd.requests

CrowdInit ==
    /\ settings = [UPSTASH_REDIS_URL |-> TRUE, UPSTASH_REDIS_TOKEN |-> TRUE,
                   DEBUG |-> FALSE, DAILY_RATE_LIMIT |-> Crowd.daily_limit,
                   GLOBAL_RATE_LIMIT |-> Crowd.global_limit]
    /\ app = "serving"
    /\ redis = "client"
    /\ gemini = TRUE
    /\ store = [k \in AllKeys |-> Absent]
    /\ now = 0
    /\ req = [r \in CrowdReqs |-> NewReq]
    /\ telemetry = Telemetry0
    /\ health = NoHealth

CrowdNext ==
    \/ \E r \in CrowdReqs, ip \in Clients : Begin(r, ip, "ok")
    \/ \E r \in CrowdReqs : Admit(r, 3600000)
    \/ \E r \in CrowdReqs, o \in HandlerOutcomes(gemini) : Handle(r, "ok", o)
    \/ \E r \in CrowdReqs : Refund(r)

SpecCrowd == CrowdInit /\ [][CrowdNext]_vars

\* ------------------------------------------------------------ get_client_ip
\* Header values and addresses spelled out as sequences of characters: a
\* comma, a blank and a character of an address.  A header that is absent
\* and one that is empty are both the empty sequence (both are falsy).
HeaderChars == {",", " ", "a"}

HeaderValues == UNION {[1..n -> HeaderChars] : n \in 0..MaxHeaderLen}

Unknown == <<"u", "n", "k", "n", "o", "w", "n">>

\* request.client: None, or a peer with its host
Peers == {[present |-> FALSE, host |-> <<>>], [present |-> TRUE, host |-> <<"a", "a">>]}

\* str.split(",")[0]
split_first(str) ==
    LET commas == {i \in 1..Len(str) : str[i] = ","}
    IN  IF commas = {} THEN str
        ELSE SubSeq(str, 1, (CHOOSE i \in commas : \A j \in commas : i <= j) - 1)

\* str.strip()
strip(str) ==
    LET solid == {i \in 1..Len(str) : str[i] # " "}
    IN  IF solid = {} THEN <<>>
        ELSE SubSeq(str, CHOOSE i \in solid : \A j \in solid : i <= j,
                         CHOOSE i \in solid : \A j \in solid : i >= j)

\* lines 332-337
get_client_ip(forwarded, real_ip, client) ==
    IF forwarded # <<>> THEN strip(split_first(forwarded))
    ELSE IF real_ip # <<>> THEN strip(real_ip)
    ELSE IF client.present THEN client.host ELSE Unknown

\* a request as it arrives: its two headers and its transport peer
Arrivals ==
    {[forwarded |-> f, real_ip |-> x, client |-> c] @@ NewReq :
        f \in HeaderValues, x \in HeaderValues, c \in Peers}

ClientIpInit ==
    /\ settings = [UPSTASH_REDIS_URL |-> TRUE, UPSTASH_REDIS_TOKEN |-> TRUE,
                   DEBUG |-> FALSE, DAILY_RATE_LIMIT |-> MaxDaily,
                   GLOBAL_RATE_LIMIT |-> MaxGlobal]
    /\ app = "serving"
    /\ redis = "client"
    /\ gemini = TRUE
    /\ store = [k \in AllKeys |-> Absent]
    /\ now = 0
    /\ req \in [{1} -> Arrivals]
    /\ telemetry = Telemetry0
    /\ health = NoHealth

\* line 525: client_ip = get_client_ip(request)
resolve_client(r) ==
    /\ req[r].pc = "new"
    /\ req' = [req EXCEPT ![r].pc = "resolved",
                          ![r].ip = get_client_ip(req[r].forwarded, req[r].real_ip,
                                                  req[r].client)]
    /\ UNCHANGED <<settings, app, redis, gemini, store, now, telemetry, health>>

ClientIpNext == \E r \in DOMAIN req : resolve_client(r)

SpecClientIp == ClientIpInit /\ [][ClientIpNext]_vars

\* ------------------------------------------------------------ every route
\* The requests of every route next to two metered ones: the path test of
\* rate_limit_middleware, the health router and the share router, which
\* keeps its entries in the same store.
ShareIds == {"s1"}

\* lines 911 and 936: f"codalyzer:share:{share_id}"
share_key_of_counter(id) == global_key(0)

share_key(id) == <<"codalyzer", "share", id>>

ShareKeys == {share_key(id) : id \in ShareIds}

\* SHARE_TTL_SECONDS = 86400 * 7 of line 87, in ticks
ShareTtlTicks == 7 * DayLen

\* a path as its segments; path.endswith("/analyze") of line 504
Paths ==
    {<<"analyze">>, <<"api", "v1", "analyze">>, <<"api", "v1", "initialize">>,
     <<"api", "v1", "health">>, <<"api", "v1", "metrics">>,
     <<"api", "v1", "share">>, <<"api", "v1", "share", "s1">>}

Metered(method, path) == method = "POST" /\ path[Len(path)] = "analyze"

RoutesInit ==
    /\ settings = [UPSTASH_REDIS_URL |-> TRUE, UPSTASH_REDIS_TOKEN |-> TRUE,
                   DEBUG |-> FALSE, DAILY_RATE_LIMIT |-> MaxDaily,
                   GLOBAL_RATE_LIMIT |-> MaxGlobal]
    /\ app = "serving"
    /\ redis = "client"
    /\ gemini = TRUE
    /\ store = [k \in AllKeys \cup ShareKeys |-> Absent]
    /\ now = 0
    /\ req = [r \in Reqs |-> NewReq]
    /\ telemetry = Telemetry0
    /\ health = NoHealth

\* lines 831-869 and 872-879: GET /health pings the store, GET /metrics
\* returns _telemetry; neither writes anything.  Lines 504-505 also hand on
\* a GET on an analyze path, which the router answers 405.
read_only(method, path) ==
    /\ app = "serving"
    /\ ~Metered(method, path)
    /\ method = "GET"
    /\ path[Len(path)] \in {"health", "metrics", "analyze"}
    /\ UNCHANGED vars

\* lines 903-923: POST /share stores the result under a fresh id for
\* SHARE_TTL_SECONDS; a store error is counted and answered 500
create_share(id, raises) ==
    /\ app = "serving"
    /\ ~Metered("POST", <<"api", "v1", "share">>)
    /\ redis # "none"
    /\ raises => telemetry.redis_errors < MaxErrors
    /\ store' = IF raises THEN store
                ELSE [store EXCEPT ![share_key(id)] =
                        [present |-> TRUE, val |-> 1, exp |-> now + ShareTtlTicks]]
    /\ telemetry' = [telemetry EXCEPT !.redis_errors = IF raises THEN @ + 1 ELSE @]
    /\ UNCHANGED <<settings, app, redis, gemini, now, req, health>>

\* lines 926-948: GET /share/{share_id} reads the entry; a store error is
\* counted and answered 500
get_share(id, raises) ==
    /\ app = "serving"
    /\ ~Metered("GET", <<"api", "v1", "share", id>>)
    /\ redis # "none"
    /\ raises => telemetry.redis_errors < MaxErrors
    /\ telemetry' = [telemetry EXCEPT !.redis_errors = IF raises THEN @ + 1 ELSE @]
    /\ UNCHANGED <<settings, app, redis, gemini, store, now, req, health>>

RoutesNext ==
    \/ \E r \in Reqs, ip \in Clients, path \in Paths :
          Metered("POST", path) /\ Begin(r, ip, "ok")
    \/ \E r \in Reqs : Admit(r, 3600000)
    \/ \E r \in Reqs, o \in HandlerOutcomes(gemini) : Handle(r, "ok", o)
    \/ \E r \in Reqs : Refund(r)
    \/ \E ip \in Clients, raises \in BOOLEAN :
          /\ ~Metered("GET", <<"api", "v1", "initialize">>)
          /\ raises => telemetry.redis_errors < MaxErrors
          /\ initialize(ip, raises)
    \/ \E method \in {"GET", "POST"}, path \in Paths : read_only(method, path)
    \/ \E id \in ShareIds, raises \in BOOLEAN : create_share(id, raises)
    \/ \E id \in ShareIds, raises \in BOOLEAN : get_share(id, raises)
    \/ Tick

SpecRoutes == RoutesInit /\ [][RoutesNext]_vars

\* ------------------------------------------------- calls that do not return
\* A store call or a provider attempt may stop answering.  What ends the
\* wait is the timeout the call was given: the socket timeout of the Redis
\* client (create_redis_client) and asyncio.wait_for around the provider
\* call (GeminiService.analyze), which tenacity repeats up to three times.
REDIS_TIMEOUT_SECONDS == 2
GEMINI_TIMEOUT_SECONDS == 8

\* lines 396-398: the client gives every socket read REDIS_TIMEOUT_SECONDS
\* and does not retry a read that timed out
socket_timeout_unset == [set |-> FALSE, seconds |-> 0, retry_on_timeout |-> FALSE]

socket_timeout ==
    [set |-> TRUE, seconds |-> REDIS_TIMEOUT_SECONDS, retry_on_timeout |-> FALSE]

\* lines 688-707: asyncio.wait_for(..., timeout=GEMINI_TIMEOUT_SECONDS)
wait_for == [set |-> TRUE, seconds |-> GEMINI_TIMEOUT_SECONDS]

\* line 666: stop_after_attempt(3)
stop_after_attempt == 3

\* a request of this specification also records
\*   hung      the pc at which the call it awaits stopped answering
\*   attempts  the provider attempts that ended in the timeout
LiveReqs == 1..2

LiveReq == [hung |-> "", attempts |-> 0] @@ NewReq

\* the call r awaits has stopped answering
Hung(r) == req[r].hung = req[r].pc

LiveInit ==
    /\ settings = [UPSTASH_REDIS_URL |-> TRUE, UPSTASH_REDIS_TOKEN |-> TRUE,
                   DEBUG |-> FALSE, DAILY_RATE_LIMIT |-> 1,
                   GLOBAL_RATE_LIMIT |-> 2]
    /\ app = "serving"
    /\ redis = "client"
    /\ gemini = TRUE
    /\ store = [k \in AllKeys |-> Absent]
    /\ now = 0
    /\ req = [r \in LiveReqs |-> LiveReq]
    /\ telemetry = Telemetry0
    /\ health = NoHealth

\* the store stops answering the redis.eval of line 530 or of line 582
store_stalls(r) ==
    /\ req[r].pc \in {"keyed", "refund"}
    /\ ~Hung(r)
    /\ req' = [req EXCEPT ![r].hung = req[r].pc]
    /\ UNCHANGED <<settings, app, redis, gemini, store, now, telemetry, health>>

\* the provider stops answering the generate_content call of line 689
provider_stalls(r) ==
    /\ req[r].pc = "handler"
    /\ ~Hung(r)
    /\ req[r].attempts < stop_after_attempt
    /\ req' = [req EXCEPT ![r].hung = req[r].pc]
    /\ UNCHANGED <<settings, app, redis, gemini, store, now, telemetry, health>>

\* line 530: the store answers the admit call
eval_returns(r) == ~Hung(r) /\ Admit(r, 3600000)

\* lines 530 and 601: the admit call raises, a store error or, when the
\* store does not answer, the socket timeout
eval_raises(r, ran) == (Hung(r) => socket_timeout.set) /\ AdmitRaises(r, ran)

\* lines 708-712 and 665-670: wait_for gives up on the attempt; analyze
\* raises TimeoutError, which tenacity answers with the next attempt
attempt_times_out(r) ==
    /\ req[r].pc = "handler"
    /\ Hung(r)
    /\ wait_for.set
    /\ req' = [req EXCEPT ![r].hung = "", ![r].attempts = @ + 1]
    /\ UNCHANGED <<settings, app, redis, gemini, store, now, telemetry, health>>

\* line 576: call_next returns; after the last attempt timed out the
\* TimeoutError is re-raised and analyze_code answers 504 (lines 810-813)
call_next_returns(r, clen, o) ==
    /\ ~Hung(r)
    /\ req[r].attempts > 0 => clen = "ok"
    /\ req[r].attempts = stop_after_attempt => o = Outcome(504, TRUE, TRUE)
    /\ Handle(r, clen, o)

\* line 582: the store answers the refund call
refund_returns(r) == ~Hung(r) /\ Refund(r)

\* lines 582 and 592: the refund call raises or runs into the socket timeout
refund_raises(r, ran) == (Hung(r) => socket_timeout.set) /\ RefundRaises(r, ran)

\* the steps that end what r awaits
StoreCallEnds(r) ==
    \/ eval_returns(r)
    \/ \E ran \in BOOLEAN : eval_raises(r, ran)
    \/ refund_returns(r)
    \/ \E ran \in BOOLEAN : refund_raises(r, ran)

ProviderAttemptEnds(r) ==
    \/ attempt_times_out(r)
    \/ \E clen \in ContentLengths, o \in HandlerOutcomes(gemini) :
          call_next_returns(r, clen, o)

LiveNext ==
    \/ \E r \in LiveReqs, ip \in Clients : Begin(r, ip, "ok")
    \/ \E r \in LiveReqs : store_stalls(r)
    \/ \E r \in LiveReqs : provider_stalls(r)
    \/ \E r \in LiveReqs : StoreCallEnds(r)
    \/ \E r \in LiveReqs : ProviderAttemptEnds(r)

\* every store call returns or hits the socket timeout, every provider
\* attempt returns or hits the wait_for timeout; requests need not arrive
\* and calls need not stall
SpecLive ==
    /\ LiveInit
    /\ [][LiveNext]_vars
    /\ \A r \in LiveReqs : WF_vars(StoreCallEnds(r))
    /\ \A r \in LiveReqs : WF_vars(ProviderAttemptEnds(r))

\* ------------------------------------------------------- reading the state
Min(a, b) == IF a <= b THEN a ELSE b

IpKeys == {ip_key(c, t) : c \in Clients, t \in Times}
GlobalKeys == {global_key(t) : t \in Times}

Enabled == rate_limiting_enabled(settings)

\* the admit call of r returned its two counts
AdmitReturned(r) == req[r].admit_calls > 0 /\ req[r].raised # "admit"

\* r passed both quota checks: the middleware went on to call_next
Passed(r) == AdmitReturned(r) /\ req[r].called > 0

\* r was answered 429 by the middleware
Rejected(r) == req[r].pc = "done" /\ req[r].status = 429

\* r was answered the middleware's own 503
Refused(r) ==
    req[r].pc = "done" /\ req[r].status = 503 /\ req[r].error = "service_unavailable"

\* the requests whose admit call was made with the client key k
AdmitsOn(k) == {r \in Reqs : req[r].admit_calls > 0 /\ req[r].ip_key = k}

\* the requests whose admit call was made with the global key k
GlobalAdmitsOn(k) == {r \in Reqs : req[r].admit_calls > 0 /\ req[r].global_key = k}

\* ------------------------------------------------------------------ claims

\* C1: the admits made on one client key, when none of them raised, none was
\* refunded and none was rejected on the global axis, and the key has not
\* expired: with N such admits and client limit L, min(N, L) requests passed
\* the quota check, max(0, N - L) were answered 429 and the counter equals N,
\* in every interleaving.
C1_ConcurrentAdmits ==
    \A k \in IpKeys :
        LET A == AdmitsOn(k)
            N == Cardinality(A)
            L == settings.DAILY_RATE_LIMIT
        IN  (/\ store[k].present
             /\ \A r \in A : /\ AdmitReturned(r)
                             /\ req[r].refund_calls = 0
                             /\ req[r].error # "global_limit_exceeded")
            => /\ Cardinality({r \in A : Passed(r)}) = Min(N, L)
               /\ Cardinality({r \in A : Rejected(r)}) = Max(0, N - L)
               /\ store[k].val = N

\* two admits of one client against limit 1: one passed, one rejected
C1_Witness ==
    \E k \in IpKeys :
        /\ Cardinality(AdmitsOn(k)) = 2
        /\ settings.DAILY_RATE_LIMIT = 1
        /\ \A r \in AdmitsOn(k) : /\ AdmitReturned(r)
                                  /\ req[r].refund_calls = 0
                                  /\ req[r].error # "global_limit_exceeded"
        /\ store[k].present /\ store[k].val = 2
        /\ \E r \in AdmitsOn(k) : Rejected(r)

\* C2: rate limiting configured and the store handle absent, or the admit
\* call raised: the request is answered 503 service_unavailable and call_next
\* was not invoked for it.
C2_FailClosed ==
    \A r \in Reqs :
        (/\ Enabled
         /\ req[r].pc # "new"
         /\ (redis = "none" \/ req[r].raised = "admit"))
        => /\ Refused(r)
           /\ req[r].called = 0

\* both cases: a request refused for want of a handle, and (in another run)
\* one refused because the admit call raised with the limits not reached
C2_WitnessNoHandle ==
    \E r \in Reqs : Enabled /\ redis = "none" /\ Refused(r) /\ req[r].raised = "no_handle"

C2_Witness ==
    \E r \in Reqs :
        /\ Enabled /\ req[r].raised = "admit" /\ Refused(r)
        /\ Count(store, req[r].ip_key) < settings.DAILY_RATE_LIMIT

\* C3: for every client key and every global key, the requests that passed
\* both quota checks on it and whose refund has not run are at most
\* DAILY_RATE_LIMIT, respectively GLOBAL_RATE_LIMIT.
C3_NoOverAdmission ==
    /\ \A k \in IpKeys :
          Cardinality({r \in AdmitsOn(k) : Passed(r) /\ req[r].refunds = 0})
              <= settings.DAILY_RATE_LIMIT
    /\ \A k \in GlobalKeys :
          Cardinality({r \in GlobalAdmitsOn(k) : Passed(r) /\ req[r].refunds = 0})
              <= settings.GLOBAL_RATE_LIMIT

\* a refund made room: one request refunded, a later one of the same client
\* passed, and the limit is reached
C3_Witness ==
    \E r, q \in Reqs :
        /\ r # q
        /\ req[r].ip_key = req[q].ip_key
        /\ Passed(r) /\ req[r].refunds = 1
        /\ Passed(q) /\ req[q].refunds = 0
        /\ settings.DAILY_RATE_LIMIT = 1

\* a request that is answered stays as it is
Terminal(r) == req[r].pc = "done" => req'[r] = req[r]

\* the step in which the store runs the refund script for r
RefundRuns(r) == req'[r].refunds = req[r].refunds + 1

\* the step in which the store runs the admit script for r
AdmitRuns(r) == req'[r].admits = req[r].admits + 1

\* every key but k1 and k2 is what it was
OthersUnchanged(k1, k2) == \A k \in AllKeys \ {k1, k2} : store'[k] = store[k]

\* C4: an admitted request whose handler response is >= 500 has the refund
\* script called exactly once before its response is sent, with the client
\* key and the global key of its admit, and the run of the script leaves each
\* of the two counters one below its value just before.
C4_RefundOnServerFailure ==
    /\ [](\A r \in Reqs :
            /\ req[r].refunds <= req[r].refund_calls /\ req[r].refund_calls <= 1
            /\ req[r].pc = "refund"
                 => req[r].hstatus >= 500 /\ req[r].status = 0 /\ req[r].refund_calls = 0
            /\ (req[r].pc = "done" /\ Passed(r) /\ req[r].hstatus >= 500)
                 => req[r].refund_calls = 1 /\ req[r].status = req[r].hstatus)
    /\ [][\A r \in Reqs :
            RefundRuns(r) =>
               /\ req[r].pc = "refund"
               /\ store[req[r].ip_key].present /\ store[req[r].global_key].present
               /\ store'[req[r].ip_key].val = store[req[r].ip_key].val - 1
               /\ store'[req[r].global_key].val = store[req[r].global_key].val - 1
               /\ OthersUnchanged(req[r].ip_key, req[r].global_key)]_vars

\* a provider timeout (504) refunded after the bucket boundary passed
C4_Witness ==
    \E r \in Reqs :
        /\ req[r].pc = "done" /\ req[r].hstatus = 504 /\ req[r].status = 504
        /\ req[r].refunds = 1
        /\ req[r].ip_key # ip_key(req[r].ip, now)
        /\ Count(store, req[r].ip_key) = 0

\* C5: an admitted request whose handler response is below 500 has no refund
\* call, and the step that returns its response leaves every counter as it
\* is; the request is answered and nothing is done for it afterwards.
C5_NoRefundBelow500 ==
    /\ [](\A r \in Reqs :
            (req[r].pc = "done" /\ Passed(r) /\ req[r].hstatus > 0 /\ req[r].hstatus < 500)
                 => /\ req[r].refund_calls = 0 /\ req[r].refunds = 0
                    /\ req[r].status = req[r].hstatus)
    /\ [][\A r \in Reqs :
            /\ Terminal(r)
            /\ (req[r].pc = "handler" /\ req'[r].hstatus > 0 /\ req'[r].hstatus < 500)
                 => req'[r].pc = "done" /\ store' = store]_vars

\* an invalid-content answer (400) with the admit's increment still counted
C5_Witness ==
    \E r \in Reqs :
        /\ req[r].pc = "done" /\ Passed(r) /\ req[r].status = 400
        /\ req[r].refund_calls = 0
        /\ store[req[r].ip_key].present
        /\ store[req[r].ip_key].val = req[r].admitted_at

\* C6: every run of the admit script adds exactly 1 to the client counter and
\* 1 to the global counter in one step and touches no other key; a request
\* answered 429, on either axis, has had its admit run and never has a
\* refund call.
C6_AdmitCountsRejections ==
    /\ [](\A r \in Reqs :
            Rejected(r) => req[r].admits = 1 /\ req[r].refund_calls = 0 /\ req[r].refunds = 0)
    /\ [][\A r \in Reqs :
            /\ Terminal(r)
            /\ AdmitRuns(r) =>
                 /\ Count(store', req'[r].ip_key) = Count(store, req'[r].ip_key) + 1
                 /\ Count(store', req'[r].global_key) = Count(store, req'[r].global_key) + 1
                 /\ OthersUnchanged(req'[r].ip_key, req'[r].global_key)]_vars

\* a rejection on the global axis that raised the client counter
C6_Witness ==
    \E r \in Reqs :
        /\ Rejected(r) /\ req[r].error = "global_limit_exceeded"
        /\ req[r].admitted_at = 1
        /\ Count(store, req[r].ip_key) = 1
        /\ Count(store, req[r].global_key) = settings.GLOBAL_RATE_LIMIT + 1

\* C7: a request whose admit returned is passed to call_next exactly when its
\* client count is at most DAILY_RATE_LIMIT and its global count at most
\* GLOBAL_RATE_LIMIT (a count equal to the limit passes), and is answered 429
\* otherwise (a count of limit + 1 is rejected).
C7_StrictGreaterThan ==
    \A r \in Reqs :
        AdmitReturned(r) =>
            IF /\ req[r].admitted_at <= settings.DAILY_RATE_LIMIT
               /\ req[r].global_count <= settings.GLOBAL_RATE_LIMIT
            THEN req[r].called = 1 /\ req[r].status # 429
            ELSE Rejected(r) /\ req[r].called = 0

\* the request at the client limit passed and the next one was rejected
C7_Witness ==
    \E r, q \in Reqs :
        /\ Passed(r) /\ req[r].admitted_at = settings.DAILY_RATE_LIMIT
        /\ req[r].global_count < settings.GLOBAL_RATE_LIMIT
        /\ Rejected(q) /\ req[q].admitted_at = settings.DAILY_RATE_LIMIT + 1
        /\ req[q].global_count = settings.GLOBAL_RATE_LIMIT

\* the same on the global axis
C7_WitnessGlobal ==
    \E r, q \in Reqs :
        /\ Passed(r) /\ req[r].global_count = settings.GLOBAL_RATE_LIMIT
        /\ Rejected(q) /\ req[q].global_count = settings.GLOBAL_RATE_LIMIT + 1
        /\ req[q].admitted_at <= settings.DAILY_RATE_LIMIT

\* C8: a POST /analyze whose Content-Length exceeds MAX_REQUEST_SIZE is
\* answered 413 without the admit script having been called or run for it.
C8_SizeCheckBeforeAdmission ==
    \A r \in Reqs :
        req[r].status = 413 => req[r].admit_calls = 0 /\ req[r].admits = 0

\* C9: a request answered by rate_limit_middleware itself, 429 or 503
\* service_unavailable, never had call_next invoked.
C9_AdmissionErrorsBeforeHandler ==
    \A r \in Reqs :
        (Rejected(r) \/ Refused(r)) => req[r].called = 0

\* C10: without a store URL or token every request that entered is passed to
\* call_next, no admit and no refund call is made, no counter key exists and
\* no request is answered 429 or the middleware's 503.
C10_PassThrough ==
    ~Enabled =>
        /\ redis = "none"
        /\ \A k \in AllKeys : ~store[k].present
        /\ \A r \in Reqs :
              /\ req[r].pc # "new" => req[r].called = 1
              /\ req[r].admit_calls = 0 /\ req[r].refund_calls = 0
              /\ ~Rejected(r) /\ ~Refused(r)
              /\ req[r].pc = "done" /\ req[r].raised = "" => req[r].status = req[r].hstatus

\* only the token is missing; one request answered 200 and one whose
\* handler answered 503, both by call_next
C10_Witness ==
    /\ settings.UPSTASH_REDIS_URL /\ ~settings.UPSTASH_REDIS_TOKEN
    /\ \E r, q \in Reqs :
          /\ req[r].pc = "done" /\ req[r].status = 200 /\ req[r].called = 1
          /\ req[q].pc = "done" /\ req[q].status = 503 /\ req[q].called = 1

\* C11: a request whose refund call raised is answered with the status of
\* the handler's response and without the body of the middleware's 503.
C11_RefundFailureKeepsResponse ==
    \A r \in Reqs :
        req[r].raised = "refund"
            => /\ req[r].pc = "done"
               /\ req[r].hstatus >= 500
               /\ req[r].status = req[r].hstatus
               /\ req[r].error = ""

\* a provider timeout whose refund call raised before the store ran it
C11_Witness ==
    \E r \in Reqs :
        /\ req[r].raised = "refund" /\ req[r].refunds = 0
        /\ req[r].status = 504

\* C12: the step in which a refund call raises increments
\* _telemetry["redis_errors"].
C12_RefundFailureCounted ==
    [][\A r \in Reqs :
          (req[r].raised # "refund" /\ req'[r].raised = "refund")
              => telemetry'.redis_errors = telemetry.redis_errors + 1]_vars

\* the step in which the store runs the admit script on key k
AdmitRunsOn(k) ==
    \E r \in Reqs : AdmitRuns(r) /\ k \in {req'[r].ip_key, req'[r].global_key}

\* C15: a run of the admit script on a key that exists leaves the expiry of
\* the key as it is.
C15_ExpirySetOnce ==
    [][\A k \in AllKeys :
          (store[k].present /\ AdmitRunsOn(k)) => store'[k].exp = store[k].exp]_vars

\* C18: a request whose client count exceeds DAILY_RATE_LIMIT while its
\* global count exceeds GLOBAL_RATE_LIMIT is answered the client-scope 429.
C18_ClientScopeFirst ==
    \A r \in Reqs :
        (/\ AdmitReturned(r)
         /\ req[r].admitted_at > settings.DAILY_RATE_LIMIT
         /\ req[r].global_count > settings.GLOBAL_RATE_LIMIT)
        => /\ Rejected(r)
           /\ req[r].error = "rate_limit_exceeded"
           /\ req[r].remaining = 0

C18_Witness ==
    \E r \in Reqs :
        /\ Rejected(r)
        /\ req[r].admitted_at > settings.DAILY_RATE_LIMIT
        /\ req[r].global_count > settings.GLOBAL_RATE_LIMIT

\* the admits on client key k came one after the other in arrival order,
\* none raised, was refunded or was rejected on the global axis, and every
\* handler call that returned answered 200
Sequential(k) ==
    /\ store[k].present
    /\ \A r \in AdmitsOn(k) :
          /\ AdmitReturned(r)
          /\ req[r].refund_calls = 0
          /\ req[r].raised = ""
          /\ req[r].error # "global_limit_exceeded"
          /\ (req[r].pc = "done" /\ Passed(r)) => req[r].status = 200
    /\ \A q \in AdmitsOn(k), r \in AdmitsOn(k) :
          q < r => req[q].admitted_at < req[r].admitted_at

\* r is the Kth(k, r)-th request on client key k
Kth(k, r) == Cardinality({q \in AdmitsOn(k) : q <= r})

\* C19: sequential requests of one client in one bucket with client limit
\* L, every handler call succeeding: the k-th request (1 <= k <= L) returns
\* 200 with X-RateLimit-Remaining = L - k, and request L + 1 returns 429
\* with X-RateLimit-Remaining = 0 and Retry-After > 0.
C19_SequentialHeaders ==
    \A k \in IpKeys :
        Sequential(k) =>
            \A r \in AdmitsOn(k) :
                req[r].pc = "done" =>
                    LET L == settings.DAILY_RATE_LIMIT
                    IN  /\ Kth(k, r) <= L
                            => /\ req[r].status = 200
                               /\ req[r].remaining = L - Kth(k, r)
                        /\ Kth(k, r) = L + 1
                            => /\ req[r].status = 429
                               /\ req[r].remaining = 0
                               /\ req[r].retry_after > 0

\* the same statement with Retry-After >= 0 in place of Retry-After > 0
C19_HeadersUpToTruncation ==
    \A k \in IpKeys :
        Sequential(k) =>
            \A r \in AdmitsOn(k) :
                req[r].pc = "done" =>
                    LET L == settings.DAILY_RATE_LIMIT
                    IN  /\ Kth(k, r) <= L
                            => /\ req[r].status = 200
                               /\ req[r].remaining = L - Kth(k, r)
                        /\ Kth(k, r) = L + 1
                            => /\ req[r].status = 429
                               /\ req[r].remaining = 0
                               /\ req[r].retry_after >= 0

\* request L + 1 of a sequential run, rejected within the last second
\* before the reset
C19_LastSecond ==
    \E k \in IpKeys, r \in Reqs :
        /\ Sequential(k) /\ r \in AdmitsOn(k)
        /\ Kth(k, r) = settings.DAILY_RATE_LIMIT + 1
        /\ Rejected(r) /\ req[r].retry_after = 0

\* the store has run no admit script in the bucket of the clock for a
\* request of client c (the global key of an admit names its bucket)
NoAdmitInBucket(c) ==
    \A q \in Reqs :
        (req[q].admits > 0 /\ req[q].ip = c) => req[q].global_key # global_key(now)

\* the step in which GET /initialize is answered from two reads that succeed
StatusRead ==
    /\ health'.reads = health.reads + 1
    /\ redis = "client"
    /\ telemetry'.redis_errors = telemetry.redis_errors

\* C20: the admit of a request that arrived in the bucket of the clock uses
\* the two keys of that bucket, and returns client count 1 when it is the
\* first admit of its client in the bucket; a status read in a bucket in
\* which the client (or any client) had no admit reports the full limit,
\* whatever the counters of earlier buckets hold.
C20_BucketIsolation ==
    /\ [][\A r \in Reqs :
            (AdmitRuns(r) /\ req[r].born = now)
            => /\ req'[r].ip_key = ip_key(req[r].ip, now)
               /\ req'[r].global_key = global_key(now)
               /\ (req'[r].raised = "" /\ NoAdmitInBucket(req[r].ip))
                      => req'[r].ip_count = 1]_vars
    /\ [][StatusRead
            => /\ NoAdmitInBucket(health'.ip)
                    => health'.user_requests_remaining = settings.DAILY_RATE_LIMIT
               /\ (\A c \in Clients : NoAdmitInBucket(c))
                    => health'.global_requests_remaining = settings.GLOBAL_RATE_LIMIT]_vars

\* a client with a count in the bucket before, still in the store: its
\* status read in the new bucket saw the full limit and its first admit
\* there returned 1
C20_Witness ==
    \E c \in Clients, r \in Reqs :
        /\ now = 1
        /\ store[ip_key(c, 0)].present /\ store[ip_key(c, 0)].val >= 1
        /\ store[global_key(0)].present /\ store[global_key(0)].val >= 1
        /\ health.reads = 1 /\ health.ip = c /\ health.reset_at = next_reset(1)
        /\ health.user_requests_remaining = settings.DAILY_RATE_LIMIT
        /\ health.global_requests_remaining = settings.GLOBAL_RATE_LIMIT
        /\ req[r].ip = c /\ req[r].ip_key = ip_key(c, 1)
        /\ req[r].global_key = global_key(1)
        /\ Passed(r) /\ req[r].admitted_at = 1

\* the step in which the store runs the refund script on a pair holding k
RefundRunsOn(k) ==
    \E p \in PairsAt(now) : k \in {p[1], p[2]} /\ eval_refund(p[1], p[2])

\* C13: in every interleaving of admit scripts, refund scripts and key
\* expiries no stored count is negative, neither script returns a negative
\* count, and a refund on a key that stands at 0 leaves it at 0.
C13_NeverNegative ==
    /\ [](/\ \A k \in AllKeys : store[k].present => store[k].val >= 0
          /\ \A k1 \in IpKeys, k2 \in GlobalKeys :
                /\ RATE_LIMIT_LUA(store, k1, k2, now).ip_count >= 0
                /\ RATE_LIMIT_LUA(store, k1, k2, now).global_count >= 0
                /\ RATE_LIMIT_DECR_LUA(store, k1, k2).ip_count >= 0
                /\ RATE_LIMIT_DECR_LUA(store, k1, k2).global_count >= 0)
    /\ [][\A k \in AllKeys :
            (RefundRunsOn(k) /\ Count(store, k) = 0)
                => (store'[k].present => store'[k].val = 0)]_vars

\* a key left at 0 by the clamp (only SET 0 leaves a key without expiry)
\* next to a key that was never created
C13_Witness ==
    \E k \in AllKeys, j \in AllKeys :
        /\ store[k].present /\ store[k].val = 0 /\ store[k].exp = NoExpiry
        /\ ~store[j].present /\ now > 0

\* C14: from every counter state and for every key pair, the admit script
\* followed at once by the refund script on the same pair leaves each of the
\* two counts at its value before the admit, an absent key counting as 0,
\* and leaves every other key as it was.
C14_AdmitRefundRestores ==
    \A p \in PairsAt(now) :
        LET admitted == RATE_LIMIT_LUA(store, p[1], p[2], now).store
            refunded == RATE_LIMIT_DECR_LUA(admitted, p[1], p[2]).store
        IN  /\ Count(refunded, p[1]) = Count(store, p[1])
            /\ Count(refunded, p[2]) = Count(store, p[2])
            /\ \A k \in AllKeys \ {p[1], p[2]} : refunded[k] = store[k]

\* a pair admitted and refunded from absent (both keys exist at 0 with the
\* expiry of their creation) while another pair stands at a positive count
C14_Witness ==
    \E p \in PairsAt(now), q \in PairsAt(now) :
        /\ store[p[1]].present /\ store[p[1]].val = 0 /\ store[p[1]].exp # NoExpiry
        /\ store[p[2]].present /\ store[p[2]].val = 0 /\ store[p[2]].exp # NoExpiry
        /\ store[q[1]].present /\ store[q[1]].val > 0
        /\ store[q[2]].present /\ store[q[2]].val > 0

\* C16: a run of the refund script creates no key and leaves the expiry of
\* every key that exists as it was.
C16_RefundKeepsExpiry ==
    [][\A k \in AllKeys :
          RefundRunsOn(k)
              => /\ ~store[k].present => ~store'[k].present
                 /\ store[k].present
                        => store'[k].present /\ store'[k].exp = store[k].exp]_vars

\* C17: with global limit 5 and two clients under their own limit sending 3
\* requests each, in every interleaving: a request whose global count exceeds
\* the global limit while its client count is within the client limit is
\* answered the global-scope 429, any other admitted request passes; once
\* all six are answered exactly 5 were answered 200 and exactly 1 was
\* rejected, and the rejected one is the last in the store's order (its
\* admit returned the highest global count).
C17_GlobalCapExact ==
    /\ \A r \in ScenarioReqs :
          AdmitReturned(r)
          => /\ req[r].admitted_at <= settings.DAILY_RATE_LIMIT
             /\ req[r].global_count > settings.GLOBAL_RATE_LIMIT
                    => /\ Rejected(r)
                       /\ req[r].error = "global_limit_exceeded"
                       /\ req[r].called = 0
             /\ req[r].global_count <= settings.GLOBAL_RATE_LIMIT => Passed(r)
    /\ (\A r \in ScenarioReqs : req[r].pc = "done")
          => /\ Cardinality({r \in ScenarioReqs : req[r].status = 200}) = 5
             /\ Cardinality({r \in ScenarioReqs : Rejected(r)}) = 1
             /\ \A r \in ScenarioReqs :
                   Rejected(r)
                   => /\ req[r].error = "global_limit_exceeded"
                      /\ \A q \in ScenarioReqs \ {r} :
                            req[q].global_count < req[r].global_count

\* all six answered, and the rejected one is the request that arrived first
C17_Witness ==
    /\ \A r \in ScenarioReqs : req[r].pc = "done"
    /\ Cardinality(SentBy(ClientOrder[1])) = 3
    /\ Cardinality(SentBy(ClientOrder[2])) = 3
    /\ Rejected(1)

\* the bucket ids the two keys of an admit are scoped to
IpBucket(r) == req[r].ip_key[4]
GlobalBucket(r) == req[r].global_key[5]

\* C21: the client key and the global key handed to the admit script by one
\* request carry the same bucket id.
C21_SameBucket ==
    \A r \in Reqs : req[r].admit_calls > 0 => IpBucket(r) = GlobalBucket(r)

\* the four ends of a gated request that was answered
Completed(r) ==
    /\ Passed(r) /\ req[r].refunds = 0
    /\ req[r].status = req[r].hstatus /\ req[r].error = ""

Refunded(r) ==
    /\ Passed(r) /\ req[r].refunds = 1 /\ req[r].hstatus >= 500
    /\ req[r].status = req[r].hstatus /\ req[r].error = ""

RejectedOnQuota(r) == AdmitReturned(r) /\ ~Passed(r) /\ Rejected(r)

DegradedRejected(r) == ~Passed(r) /\ Refused(r)

\* C22: an answered request that reached the quota gate ended in exactly
\* one of COMPLETED, REFUNDED (both after ADMITTED), REJECTED and
\* DEGRADED_REJECTED; the admit script and the refund script each ran at
\* most once for it, and the refund ran only after its admit returned counts
\* within both limits and its handler returned.
C22_RequestPaths ==
    \A r \in Reqs :
        /\ req[r].admits <= 1 /\ req[r].admit_calls <= 1
        /\ req[r].refunds <= 1 /\ req[r].refund_calls <= 1
        /\ req[r].refund_calls > 0
              => /\ Passed(r) /\ req[r].hstatus > 0
                 /\ req[r].ip_count <= settings.DAILY_RATE_LIMIT
                 /\ req[r].global_count <= settings.GLOBAL_RATE_LIMIT
        /\ (req[r].pc = "done" /\ (req[r].admit_calls > 0 \/ req[r].raised = "no_handle"))
              => Cardinality({i \in 1..4 :
                      <<Completed(r), Refunded(r), RejectedOnQuota(r),
                        DegradedRejected(r)>>[i]}) = 1

\* the counting part of C22 alone: one admit and one refund at most per
\* request, the refund only for a request that passed and whose handler
\* returned
C22_AtMostOnce ==
    \A r \in Reqs :
        /\ req[r].admits <= 1 /\ req[r].admit_calls <= 1
        /\ req[r].refunds <= 1 /\ req[r].refund_calls <= 1
        /\ req[r].refund_calls > 0
              => /\ Passed(r) /\ req[r].hstatus > 0
                 /\ req[r].ip_count <= settings.DAILY_RATE_LIMIT
                 /\ req[r].global_count <= settings.GLOBAL_RATE_LIMIT

\* the path the claim leaves out: admitted, then answered the middleware's
\* own 503 because call_next raised
C22_AdmittedThenDegraded ==
    \E r \in Reqs : Passed(r) /\ Refused(r) /\ req[r].raised = "call_next"

\* the step in which GET /initialize is answered
Initialized == health'.reads = health.reads + 1

\* C24: every GET /initialize is answered; with the store handle absent, or
\* when a read raises, both remaining values are 0, and otherwise each is
\* max(0, limit - count) of the current bucket; neither is ever negative.
C24_InitializeDegrades ==
    /\ [](health.reads > 0 => /\ health.user_requests_remaining >= 0
                              /\ health.global_requests_remaining >= 0)
    /\ [][Initialized =>
            LET failed == telemetry'.redis_errors = telemetry.redis_errors + 1
                ipc == Count(store, ip_key(health'.ip, now))
                gc == Count(store, global_key(now))
            IN  /\ health'.reset_at = next_reset(now)
                /\ (redis = "none" \/ failed)
                      => /\ health'.user_requests_remaining = 0
                         /\ health'.global_requests_remaining = 0
                /\ (redis = "client" /\ ~failed)
                      => /\ health'.user_requests_remaining =
                               (IF ipc >= settings.DAILY_RATE_LIMIT THEN 0
                                ELSE settings.DAILY_RATE_LIMIT - ipc)
                         /\ health'.global_requests_remaining =
                               (IF gc >= settings.GLOBAL_RATE_LIMIT THEN 0
                                ELSE settings.GLOBAL_RATE_LIMIT - gc)]_vars

\* a read that succeeded with the client's count above its limit: two
\* admits of the client against limit 1 came before it
C24_Witness ==
    /\ health.reads = 1 /\ redis = "client" /\ telemetry.redis_errors = 0
    /\ settings.DAILY_RATE_LIMIT = 1 /\ settings.GLOBAL_RATE_LIMIT = 2
    /\ health.user_requests_remaining = 0
    /\ health.global_requests_remaining = 0
    /\ now = 0
    /\ \A r \in Reqs : req[r].ip = health.ip /\ req[r].admits = 1 /\ req[r].refund_calls = 0

\* C27: a request answered the middleware's own 503 has charged no quota:
\* the store ran the admit script for it as often as the refund script.
C27_DegradedChargesNothing ==
    \A r \in Reqs : Refused(r) => req[r].admits = req[r].refunds

\* C29: _telemetry["requests_total"] is never negative.
C29_RequestsTotalNonNegative == telemetry.requests_total >= 0

\* the step in which startup fails to create the store client
RedisInitFails ==
    /\ app = "starting" /\ app' # "starting"
    /\ telemetry'.redis_errors = telemetry.redis_errors + 1

\* C30: with rate limiting configured no POST /analyze reaches call_next
\* without an admit; a startup that cannot create the store client aborts
\* when DEBUG is off and goes on without a handle when DEBUG is on; and
\* while serving without a handle every POST /analyze is answered the
\* middleware's 503, the handle staying absent.
C30_NeverPassThrough ==
    /\ [](Enabled =>
            \A r \in Reqs :
                /\ req[r].pc # "passthru"
                /\ req[r].called > 0 => req[r].admit_calls > 0
                /\ (redis = "none" /\ req[r].pc # "new") => Refused(r))
    /\ [][(Enabled /\ RedisInitFails)
            => /\ redis' = "none"
               /\ ~settings.DEBUG => app' = "aborted"
               /\ settings.DEBUG => app' = "serving"]_vars
    /\ [][(app = "serving" /\ redis = "none") => redis' = "none"]_vars

\* DEBUG on, the store client could not be created, and a POST /analyze
\* was refused for want of a handle
C30_Witness ==
    /\ Enabled /\ settings.DEBUG /\ app = "serving" /\ redis = "none"
    /\ telemetry.redis_errors >= 2
    /\ \E r \in Reqs : Refused(r) /\ req[r].raised = "no_handle" /\ req[r].called = 0

\* the step in which r is answered the global-scope 429
GlobalRejection(r) ==
    AdmitRuns(r) /\ req'[r].status = 429 /\ req'[r].error = "global_limit_exceeded"

\* the requests charged on global key k: the store ran their admit and no
\* refund
ChargedOn(k) ==
    {q \in DOMAIN req : req[q].admits = 1 /\ req[q].refunds = 0 /\ req[q].global_key = k}

\* the requests among them that passed both quota checks
PassedOn(k) == {q \in ChargedOn(k) : Passed(q)}

\* C28 as stated: when a request is answered the global-scope 429, at least
\* GLOBAL_RATE_LIMIT requests of its bucket have passed both quota checks
\* and were not refunded.
C28_OnlyPassedConsumeGlobal ==
    [][\A r \in DOMAIN req :
          GlobalRejection(r)
              => Cardinality(PassedOn(req'[r].global_key)) >= settings.GLOBAL_RATE_LIMIT]_vars

\* C28 amended: when a request is answered the global-scope 429, at least
\* GLOBAL_RATE_LIMIT admit attempts of its bucket are charged on the global
\* counter (their admit ran and was not refunded), the attempts answered
\* 429 on either axis among them, and the counter equals their number.
C28_AttemptsConsumeGlobal ==
    [][\A r \in DOMAIN req :
          GlobalRejection(r)
              => LET k == req'[r].global_key
                 IN  /\ Cardinality(ChargedOn(k)) >= settings.GLOBAL_RATE_LIMIT
                     /\ Count(store, k) = Cardinality(ChargedOn(k))]_vars

\* a client under its own limit rejected on the global axis while only one
\* request passed: the other unit of the global budget went to a request
\* rejected on the client axis
C28_Witness ==
    \E r, q, p \in DOMAIN req :
        /\ Rejected(r) /\ req[r].error = "global_limit_exceeded"
        /\ req[r].admitted_at = 1
        /\ Rejected(q) /\ req[q].error = "rate_limit_exceeded"
        /\ req[q].global_count = 2 /\ req[r].global_count = 3
        /\ Passed(p) /\ req[p].refunds = 0 /\ req[p].ip = req[q].ip
        /\ req[r].ip # req[q].ip

\* the candidates of a request in priority order: the first
\* comma-separated value of X-Forwarded-For, X-Real-IP, the peer host, the
\* sentinel
Candidates(rec) ==
    <<strip(split_first(rec.forwarded)), strip(rec.real_ip),
      IF rec.client.present THEN rec.client.host ELSE <<>>, Unknown>>

FirstNonEmpty(c) == c[CHOOSE i \in 1..Len(c) : c[i] # <<>> /\ \A j \in 1..(i - 1) : c[j] = <<>>]

\* C25: get_client_ip returns the first non-empty candidate in priority
\* order, and never the empty string.
C25_FirstNonEmptyWins ==
    \A r \in DOMAIN req :
        req[r].pc = "resolved"
            => /\ req[r].ip = FirstNonEmpty(Candidates(req[r]))
               /\ req[r].ip # <<>>

\* the same statement for the requests whose headers, when present, carry a
\* first value that is not blank
C25_HoldsWithoutBlankValues ==
    \A r \in DOMAIN req :
        (/\ req[r].pc = "resolved"
         /\ req[r].forwarded # <<>> => strip(split_first(req[r].forwarded)) # <<>>
         /\ req[r].real_ip # <<>> => strip(req[r].real_ip) # <<>>)
            => /\ req[r].ip = FirstNonEmpty(Candidates(req[r]))
               /\ req[r].ip # <<>>

\* X-Forwarded-For ",a" with X-Real-IP "a": the empty string is returned
C25_EmptyReturned ==
    \E r \in DOMAIN req :
        /\ req[r].pc = "resolved"
        /\ req[r].forwarded = <<",", "a">> /\ req[r].real_ip = <<"a">>
        /\ req[r].ip = <<>>

\* C23: a counter key changes only in a step in which the store runs the
\* admit script or the refund script for a request with that key, or in
\* which keys expire; the requests of every other route leave the counter
\* keys as they were and create none.
C23_OnlyAdmitAndRefundWrite ==
    [][\A k \in AllKeys :
          store'[k] # store[k]
              => \/ now' # now
                 \/ \E r \in Reqs :
                       /\ AdmitRuns(r) \/ RefundRuns(r)
                       /\ k \in {req'[r].ip_key, req'[r].global_key}]_vars

\* a share was stored, GET /initialize was answered and a store error was
\* counted while no counter key exists
C23_Witness ==
    /\ \E k \in ShareKeys : store[k].present
    /\ health.reads = 1
    /\ telemetry.redis_errors = 1
    /\ \A k \in AllKeys : ~store[k].present
    /\ \A r \in Reqs : req[r].pc = "new"

\* C26: provided every store call and every provider attempt returns or
\* hits its timeout, every request that entered the admission layer is
\* eventually answered, and answered once: the answer is the handler's
\* response, a 429 or the 503 of the admission layer, and it does not change
\* afterwards; an admit call the store never answered ends in that 503, as
\* does every admit call that raised.
C26_EveryRequestAnswered ==
    /\ \A r \in LiveReqs : (req[r].pc # "new") ~> (req[r].pc = "done")
    /\ [][\A r \in LiveReqs : Terminal(r)]_vars
    /\ [](\A r \in LiveReqs :
             req[r].pc = "done"
                 => /\ req[r].called <= 1
                    /\ \/ Refused(r)
                       \/ Rejected(r)
                       \/ req[r].called = 1 /\ req[r].status = req[r].hstatus
                    /\ req[r].hung = "keyed" => Refused(r)
                    /\ req[r].raised = "admit" => Refused(r))

\* the store never answered the admit call of one request, which got the
\* 503; the provider timed out on every attempt of another, whose refund
\* call the store never answered either, and which got the handler's 504
C26_Witness ==
    \E r \in LiveReqs, q \in LiveReqs :
        /\ req[r].hung = "keyed" /\ Refused(r) /\ req[r].raised = "admit"
        /\ req[q].pc = "done" /\ req[q].attempts = stop_after_attempt
        /\ req[q].hung = "refund" /\ req[q].status = 504

====
